---- MODULE Spec2Model ----
(***************************************************************************)
(* compound-eye: the persistence layer (src/src/db.ts), its schema         *)
(* migration, and the HTTP adapter's observation routes                    *)
(* (src/src/server.ts), as a state machine over the SQLite file.           *)
(*                                                                         *)
(* Strings are sequences of tokens: " " is the whitespace token, every     *)
(* other token stands for a run of non-blank characters.  <<>> is the      *)
(* empty string.  SQL NULL / JS null is the value NULL, which is no string.*)
(***************************************************************************)
EXTENDS Integers, Sequences, FiniteSets, TLC

VARIABLES
    pc,                   \* "down" | "serving" | "crashed": the server process (index.ts main)
    foreign_keys,         \* the connection's foreign_keys setting (never set by the code: the library default)
    tables,               \* names of the tables present in compound-eye.db
    obs_columns,          \* column names of the observations table
    disp_default,         \* DEFAULT of the status/disposition column
    observations,         \* rows of observations (field disposition holds the status/disposition column)
    obs_seq,              \* sqlite_sequence of observations (AUTOINCREMENT)
    projects,             \* rows of projects
    proj_seq,             \* sqlite_sequence of projects
    actions,              \* rows of actions
    act_seq,              \* sqlite_sequence of actions
    action_observations,  \* rows of action_observations
    now,                  \* the engine's clock, in seconds (strftime('...','now'))
    result,               \* outcome of the last call / request
    fs_git,               \* file system: the directories that hold a .git entry
    fs_unreadable,        \* file system: the directories readdir fails on
    scan_root,            \* scanForGitRepos: rootPath
    scan_pc,              \* "idle" | "walking" | "lookup" | "waiting" | "done": position of scanForGitRepos
    queue,                \* findGitRoots: queue
    roots,                \* findGitRoots: roots
    listed,               \* the directories readdir has returned entries for, in this scan
    popped,               \* the directories queue.shift() has returned, in order, in this scan
    urls,                 \* what getOriginUrl returned for roots[1..Len(urls)]
    candidates,           \* scanForGitRepos: candidates
    scan_ret              \* what scanForGitRepos returned

scanner == <<fs_git, fs_unreadable, scan_root, scan_pc, queue, roots, listed, popped, urls,
             candidates, scan_ret>>

vars == <<pc, foreign_keys, tables, obs_columns, disp_default, observations, obs_seq,
          projects, proj_seq, actions, act_seq, action_observations, now, result, scanner>>

store == <<tables, obs_columns, disp_default, observations, obs_seq,
           projects, proj_seq, actions, act_seq, action_observations>>

----------------------------------------------------------------------------
(* Bounds of the model *)

MaxObs == 2        \* observations ever inserted (Spec)
MaxRows == 1       \* observations ever inserted (SpecObs, SpecHttp)
MaxAct == 1        \* actions ever inserted
MaxLinks == 2      \* length of an observation_ids list
MaxTime == 1       \* clock ticks
MaxLegacy == 1     \* rows of a legacy store

----------------------------------------------------------------------------
(* Values *)

NULL == <<"NUL">>
WS == " "

S(tok) == <<tok>>

HUMAN == S("human")
OPEN == S("open")

VALID_DISPOSITIONS == {S("open"), S("addressed"), S("wont_fix"), S("deferred")}

isValidDisposition(s) == s \in VALID_DISPOSITIONS

VALID_STATUSES == {S("observed"), S("pattern_confirmed"), S("solution_designed"), S("automated")}

\* String.prototype.trim
RECURSIVE TrimStart(_)
TrimStart(s) == IF s # <<>> /\ Head(s) = WS THEN TrimStart(Tail(s)) ELSE s

RECURSIVE TrimEnd(_)
TrimEnd(s) == IF s # <<>> /\ s[Len(s)] = WS THEN TrimEnd(SubSeq(s, 1, Len(s) - 1)) ELSE s

Trim(s) == TrimEnd(TrimStart(s))

\* JS truthiness of a string-or-null value
Truthy(s) == s # NULL /\ s # <<>>

----------------------------------------------------------------------------
(* Schema *)

ALL_TABLES == {"observations", "projects", "actions", "action_observations"}

CURRENT_COLUMNS == {"id", "text", "tags", "source", "disposition", "project", "created_at", "updated_at"}

\* the observations table of the two earlier schema versions
V0_COLUMNS == {"id", "text", "tags", "status", "project", "created_at", "updated_at"}
V1_COLUMNS == {"id", "text", "tags", "source", "status", "project", "created_at", "updated_at"}

\* CREATE TABLE IF NOT EXISTS x4: the schema after the table-creation step
CreateTablesColumns == IF "observations" \in tables THEN obs_columns ELSE CURRENT_COLUMNS
CreateTablesDefault == IF "observations" \in tables THEN disp_default ELSE OPEN

NoRow == [id |-> 0]
NoResult == [op |-> "none", id |-> 0, ret |-> "none", row |-> NoRow, rows |-> <<>>, ids |-> <<>>, nsets |-> 0, existed |-> FALSE, http |-> 0]

\* no scan has been requested (the scanner does not touch the store)
ScannerIdle ==
    /\ fs_git = {}
    /\ fs_unreadable = {}
    /\ scan_root = <<>>
    /\ scan_pc = "idle"
    /\ queue = <<>>
    /\ roots = <<>>
    /\ listed = {}
    /\ popped = <<>>
    /\ urls = <<>>
    /\ candidates = <<>>
    /\ scan_ret = <<>>

----------------------------------------------------------------------------
(* The database file before the process starts *)

\* values the status column of a legacy store can hold: the four statuses the old
\* adapter accepted, and the empty string its PATCH route let through
LegacyStatusValues == VALID_STATUSES \cup {<<>>}

LegacyRow(i, st, src) ==
    [id |-> i, text |-> S("t"), tags |-> NULL, source |-> src, disposition |-> st,
     project |-> NULL, created_at |-> 0, updated_at |-> 0]

\* rows 1..n of a legacy store, one status each (source column absent in v0: NULL)
LegacyRowSets(src) ==
    UNION {{{LegacyRow(i, f[i], src) : i \in 1..n} : f \in [1..n -> LegacyStatusValues]} : n \in 0..MaxLegacy}

StoreKinds == {"fresh", "v0", "v1"}

InitStore(kind, rows) ==
    /\ tables = CASE kind = "fresh" -> {}
                  [] kind = "v0" -> {"observations"}
                  [] kind = "v1" -> {"observations", "projects"}
    /\ obs_columns = CASE kind = "fresh" -> {}
                       [] kind = "v0" -> V0_COLUMNS
                       [] kind = "v1" -> V1_COLUMNS
    /\ disp_default = IF kind = "fresh" THEN NULL ELSE S("observed")
    /\ observations = rows
    /\ obs_seq = Cardinality(rows)
    /\ projects = {}
    /\ proj_seq = 0
    /\ actions = {}
    /\ act_seq = 0
    /\ action_observations = {}

Init ==
    /\ pc = "down"
    /\ foreign_keys \in BOOLEAN
    /\ now = 0
    /\ result = NoResult
    /\ ScannerIdle
    /\ \E kind \in StoreKinds :
         \E rows \in (CASE kind = "fresh" -> {{}}
                        [] kind = "v0" -> LegacyRowSets(NULL)
                        [] kind = "v1" -> LegacyRowSets(HUMAN)) :
            InitStore(kind, rows)

----------------------------------------------------------------------------
(* migrateStatusToDisposition *)

MigrationStatements == {"begin", "rename", "remap_open", "remap_addressed", "commit"}

\* mutant of HasStatus: the legacy column is not looked for, the migration always runs
HasStatusAlways(cols) == TRUE

HasStatus(cols) == "status" \in cols

\* ALTER TABLE observations RENAME COLUMN status TO disposition
RenameColumn(cols) == (cols \ {"status"}) \cup {"disposition"}

\* UPDATE observations SET disposition = 'open' WHERE disposition IN (...)
RemapOpen(rows) ==
    {IF r.disposition \in {S("observed"), S("pattern_confirmed"), S("solution_designed")}
        THEN [r EXCEPT !.disposition = S("open")] ELSE r : r \in rows}

\* mutant of RemapAddressed: the second UPDATE is left out
RemapAddressedSkipped(rows) == rows

\* UPDATE observations SET disposition = 'addressed' WHERE disposition = 'automated'
RemapAddressed(rows) ==
    {IF r.disposition = S("automated") THEN [r EXCEPT !.disposition = S("addressed")] ELSE r : r \in rows}

\* mutant of Rollback: the statements before the failure stay committed
RollbackKeepsWorking(committed, working) == working

\* ROLLBACK: the connection's uncommitted changes are dropped
Rollback(committed, working) == committed

\* The columns and rows committed when migrateStatusToDisposition returns or throws;
\* fail names the statement the engine fails ("none": no failure).
MigrateStatusToDisposition(cols, rows, fail) ==
    LET committed == [columns |-> cols, rows |-> rows]
        w1 == [columns |-> RenameColumn(cols), rows |-> rows]
        w2 == [w1 EXCEPT !.rows = RemapOpen(w1.rows)]
        w3 == [w2 EXCEPT !.rows = RemapAddressed(w2.rows)]
        out(db, raised) == [columns |-> db.columns, rows |-> db.rows, raised |-> raised]
    IN  IF ~HasStatus(cols) THEN out(committed, FALSE)
        ELSE IF fail = "begin" THEN out(committed, TRUE)
        ELSE IF fail = "rename" \/ "status" \notin cols \/ "disposition" \in cols
                THEN out(Rollback(committed, committed), TRUE)
        ELSE IF fail = "remap_open" THEN out(Rollback(committed, w1), TRUE)
        ELSE IF fail = "remap_addressed" THEN out(Rollback(committed, w2), TRUE)
        ELSE IF fail = "commit" THEN out(Rollback(committed, w3), TRUE)
        ELSE out(w3, FALSE)

----------------------------------------------------------------------------
(* Process: index.ts main, initDatabase *)

\* mutant of InitDatabase: main catches the migration's error and starts the server
InitDatabaseServesAnyway(fail) ==
    /\ pc \in {"down", "crashed"}
    /\ LET cols == CreateTablesColumns
           m == MigrateStatusToDisposition(cols, observations, fail)
       IN  /\ tables' = ALL_TABLES
           /\ disp_default' = CreateTablesDefault
           /\ obs_columns' = m.columns
           /\ observations' = m.rows
           /\ pc' = "serving"
           /\ result' = [NoResult EXCEPT !.op = "initDatabase",
                                         !.ret = IF m.raised THEN "throw" ELSE "db",
                                         !.existed = HasStatus(cols)]
    /\ UNCHANGED <<foreign_keys, scanner, obs_seq, projects, proj_seq, actions, act_seq,
                   action_observations, now>>

\* main: initDatabase() runs the CREATE TABLE IF NOT EXISTS statements, then the
\* migration; createApp and start follow only when it returned
InitDatabase(fail) ==
    /\ pc \in {"down", "crashed"}
    /\ LET cols == CreateTablesColumns
           m == MigrateStatusToDisposition(cols, observations, fail)
       IN  /\ tables' = ALL_TABLES
           /\ disp_default' = CreateTablesDefault
           /\ obs_columns' = m.columns
           /\ observations' = m.rows
           /\ pc' = IF m.raised THEN "crashed" ELSE "serving"
           /\ result' = [NoResult EXCEPT !.op = "initDatabase",
                                         !.ret = IF m.raised THEN "throw" ELSE "db",
                                         !.existed = HasStatus(cols)]
    /\ UNCHANGED <<foreign_keys, scanner, obs_seq, projects, proj_seq, actions, act_seq,
                   action_observations, now>>

\* SIGINT / SIGTERM: db.close(); stop(); process.exit(0)
Shutdown ==
    /\ pc = "serving"
    /\ pc' = "down"
    /\ UNCHANGED <<foreign_keys, scanner, store, now, result>>

\* the engine's clock advances
Tick ==
    /\ now < MaxTime
    /\ now' = now + 1
    /\ UNCHANGED <<pc, foreign_keys, scanner, store, result>>

----------------------------------------------------------------------------
(* Project registry *)

\* INSERT OR IGNORE INTO projects (name) VALUES (?): the rows and the sequence afterwards
EnsureProject(name) ==
    IF \E p \in projects : p.name = name
    THEN [rows |-> projects, seq |-> proj_seq]
    ELSE [rows |-> projects \cup {[id |-> proj_seq + 1, name |-> name, created_at |-> now]},
          seq |-> proj_seq + 1]

\* mutant of InsertOrIgnoreProject: a plain INSERT into a table without UNIQUE (name)
InsertProjectAlways(rows, seq, name) ==
    LET row == [id |-> seq + 1, name |-> name, created_at |-> now]
    IN  [rows |-> rows \cup {row}, seq |-> seq + 1, row |-> row]

\* INSERT OR IGNORE INTO projects (name) VALUES (?) RETURNING *: the rows and the
\* sequence afterwards, and the row the statement returns (NoRow: the insert was ignored)
InsertOrIgnoreProject(rows, seq, name) ==
    IF \E p \in rows : p.name = name
    THEN [rows |-> rows, seq |-> seq, row |-> NoRow]
    ELSE LET row == [id |-> seq + 1, name |-> name, created_at |-> now]
         IN  [rows |-> rows \cup {row}, seq |-> seq + 1, row |-> row]

\* createProject(db, {name})
CreateProject(name) ==
    /\ pc = "serving"
    /\ LET ins == InsertOrIgnoreProject(projects, proj_seq, name)
           row == IF ins.row # NoRow THEN ins.row
                  ELSE CHOOSE p \in projects : p.name = name   \* SELECT * FROM projects WHERE name = ?
       IN  /\ projects' = ins.rows
           /\ proj_seq' = ins.seq
           /\ result' = [NoResult EXCEPT !.op = "createProject", !.id = row.id, !.ret = "row",
                                         !.row = row, !.existed = (ins.row = NoRow)]
    /\ UNCHANGED <<pc, foreign_keys, scanner, tables, obs_columns, disp_default, observations, obs_seq,
                   actions, act_seq, action_observations, now>>

\* mutant of BulkInsert: a name that is already registered is fetched into the results
RECURSIVE BulkInsertFetching(_, _, _, _, _)
BulkInsertFetching(rows, seq, names, k, results) ==
    IF k > Len(names) THEN [rows |-> rows, seq |-> seq, results |-> results]
    ELSE LET ins == InsertOrIgnoreProject(rows, seq, names[k])
         IN  BulkInsertFetching(ins.rows, ins.seq, names, k + 1,
                                Append(results, CHOOSE p \in ins.rows : p.name = names[k]))

\* for (const name of names) { const row = stmt.get(name); if (row) results.push(row) }:
\* the rows and the sequence afterwards, and the results array
RECURSIVE BulkInsert(_, _, _, _, _)
BulkInsert(rows, seq, names, k, results) ==
    IF k > Len(names) THEN [rows |-> rows, seq |-> seq, results |-> results]
    ELSE LET ins == InsertOrIgnoreProject(rows, seq, names[k])
         IN  BulkInsert(ins.rows, ins.seq, names, k + 1,
                        IF ins.row # NoRow THEN Append(results, ins.row) ELSE results)

\* createProjectsBulk(db, names)
CreateProjectsBulk(names) ==
    /\ pc = "serving"
    /\ LET bulk == BulkInsert(projects, proj_seq, names, 1, <<>>)
       IN  /\ projects' = bulk.rows
           /\ proj_seq' = bulk.seq
           /\ result' = [NoResult EXCEPT !.op = "createProjectsBulk", !.ret = "rows",
                                         !.rows = bulk.results, !.ids = names]
    /\ UNCHANGED <<pc, foreign_keys, scanner, tables, obs_columns, disp_default, observations, obs_seq,
                   actions, act_seq, action_observations, now>>

\* mutant of DeleteProject: the deleted project's name is cleared from the observations
DeleteProjectClearing(id) ==
    /\ pc = "serving"
    /\ projects' = {p \in projects : p.id # id}
    /\ observations' = {IF \E p \in projects : p.id = id /\ p.name = r.project
                        THEN [r EXCEPT !.project = NULL] ELSE r : r \in observations}
    /\ result' = [NoResult EXCEPT !.op = "deleteProject", !.id = id,
                                  !.existed = (\E p \in projects : p.id = id),
                                  !.ret = IF \E p \in projects : p.id = id THEN "true" ELSE "false"]
    /\ UNCHANGED <<pc, foreign_keys, scanner, tables, obs_columns, disp_default, obs_seq,
                   proj_seq, actions, act_seq, action_observations, now>>

\* mutant of DeleteProject: the result does not depend on result.changes
DeleteProjectReportsTrue(id) ==
    /\ pc = "serving"
    /\ projects' = {p \in projects : p.id # id}
    /\ result' = [NoResult EXCEPT !.op = "deleteProject", !.id = id,
                                  !.existed = (\E p \in projects : p.id = id),
                                  !.ret = "true"]
    /\ UNCHANGED <<pc, foreign_keys, scanner, tables, obs_columns, disp_default, observations, obs_seq,
                   proj_seq, actions, act_seq, action_observations, now>>

\* deleteProject(db, id): DELETE FROM projects WHERE id = ?
DeleteProject(id) ==
    /\ pc = "serving"
    /\ projects' = {p \in projects : p.id # id}
    /\ result' = [NoResult EXCEPT !.op = "deleteProject", !.id = id,
                                  !.existed = (\E p \in projects : p.id = id),
                                  !.ret = IF \E p \in projects : p.id = id THEN "true" ELSE "false"]
    /\ UNCHANGED <<pc, foreign_keys, scanner, tables, obs_columns, disp_default, observations, obs_seq,
                   proj_seq, actions, act_seq, action_observations, now>>

----------------------------------------------------------------------------
(* Observation store *)

Exists(id) == \E r \in observations : r.id = id

Row(id) == CHOOSE r \in observations : r.id = id

\* mutant of NewObservation: disposition is left to the column's DEFAULT
NewObservationColumnDefault(id, text, source, project) ==
    [id |-> id, text |-> text, tags |-> NULL, source |-> source, disposition |-> disp_default,
     project |-> project, created_at |-> now, updated_at |-> now]

\* INSERT INTO observations (text, source, project, disposition) VALUES (?, ?, ?, 'open') RETURNING *
NewObservation(id, text, source, project) ==
    [id |-> id, text |-> text, tags |-> NULL, source |-> source, disposition |-> OPEN,
     project |-> project, created_at |-> now, updated_at |-> now]

\* createObservation(db, {text, source, project}); source NULL: the caller gave none
\* mutant of NextObservationId: INTEGER PRIMARY KEY without AUTOINCREMENT, the
\* largest id in the table plus one
NextObservationIdRowid ==
    IF observations = {} THEN 1
    ELSE (CHOOSE i \in {r.id : r \in observations} : \A r \in observations : r.id <= i) + 1

\* id INTEGER PRIMARY KEY AUTOINCREMENT: one more than the largest id the table ever held
NextObservationId == obs_seq + 1

CreateObservation(text, source, project) ==
    /\ pc = "serving"
    /\ LET ens == IF Truthy(project) THEN EnsureProject(project)
                  ELSE [rows |-> projects, seq |-> proj_seq]
           src == IF source = NULL THEN HUMAN ELSE source
           row == NewObservation(NextObservationId, text, src, project)
       IN  /\ projects' = ens.rows
           /\ proj_seq' = ens.seq
           /\ IF {"text", "source", "project", "disposition"} \subseteq obs_columns
              THEN /\ observations' = observations \cup {row}
                   /\ obs_seq' = obs_seq + 1
                   /\ result' = [NoResult EXCEPT !.op = "createObservation", !.id = row.id,
                                                 !.ret = "row", !.row = row]
              ELSE \* prepare throws: the table has no such column
                   /\ UNCHANGED <<observations, obs_seq>>
                   /\ result' = [NoResult EXCEPT !.op = "createObservation", !.ret = "throw"]
    /\ UNCHANGED <<pc, foreign_keys, scanner, tables, obs_columns, disp_default, actions, act_seq,
                   action_observations, now>>

UpdateFields == {"text", "source", "disposition", "project"}

\* the SET clauses built from the non-null fields
Sets(updates) == {f \in UpdateFields : updates[f] # NULL}

\* mutant of UpdatedRow: updated_at is not part of the SET list
UpdatedRowKeepsStamp(r, updates) ==
    [id |-> r.id,
     text |-> IF updates.text # NULL THEN updates.text ELSE r.text,
     tags |-> r.tags,
     source |-> IF updates.source # NULL THEN updates.source ELSE r.source,
     disposition |-> IF updates.disposition # NULL THEN updates.disposition ELSE r.disposition,
     project |-> IF updates.project # NULL THEN updates.project ELSE r.project,
     created_at |-> r.created_at,
     updated_at |-> r.updated_at]

\* mutant of UpdatedRow: the row is rewritten from the record, null fields included
UpdatedRowClearsOmitted(r, updates) ==
    [id |-> r.id,
     text |-> IF updates.text # NULL THEN updates.text ELSE r.text,
     tags |-> r.tags,
     source |-> IF updates.source # NULL THEN updates.source ELSE r.source,
     disposition |-> IF updates.disposition # NULL THEN updates.disposition ELSE r.disposition,
     project |-> updates.project,
     created_at |-> r.created_at,
     updated_at |-> now]

\* UPDATE observations SET ..., updated_at = strftime(..., 'now') WHERE id = ? RETURNING *
UpdatedRow(r, updates) ==
    [id |-> r.id,
     text |-> IF updates.text # NULL THEN updates.text ELSE r.text,
     tags |-> r.tags,
     source |-> IF updates.source # NULL THEN updates.source ELSE r.source,
     disposition |-> IF updates.disposition # NULL THEN updates.disposition ELSE r.disposition,
     project |-> IF updates.project # NULL THEN updates.project ELSE r.project,
     created_at |-> r.created_at,
     updated_at |-> now]

\* updateObservation(db, id, updates)
UpdateObservation(id, updates) ==
    /\ pc = "serving"
    /\ LET sets == Sets(updates)
           res == [NoResult EXCEPT !.op = "updateObservation", !.id = id,
                                   !.nsets = Cardinality(sets), !.existed = Exists(id)]
       IN  IF sets = {}
           THEN /\ observations' = observations
                /\ result' = [res EXCEPT !.ret = "null"]
           ELSE IF ~(sets \subseteq obs_columns)
           THEN /\ observations' = observations
                /\ result' = [res EXCEPT !.ret = "throw"]
           ELSE IF Exists(id)
           THEN LET row == UpdatedRow(Row(id), updates)
                IN  /\ observations' = (observations \ {Row(id)}) \cup {row}
                    /\ result' = [res EXCEPT !.ret = "row", !.row = row]
           ELSE /\ observations' = observations
                /\ result' = [res EXCEPT !.ret = "null"]
    /\ UNCHANGED <<pc, foreign_keys, scanner, tables, obs_columns, disp_default, obs_seq, projects,
                   proj_seq, actions, act_seq, action_observations, now>>

\* observation_id ... REFERENCES observations(id) ON DELETE CASCADE: acts only
\* when the connection enforces foreign keys
CascadeObservation(links, id) ==
    IF foreign_keys THEN {l \in links : l.observation_id # id} ELSE links

\* mutant of DeleteObservation: the delete takes the linked actions with it
DeleteObservationWithActions(id) ==
    /\ pc = "serving"
    /\ observations' = {r \in observations : r.id # id}
    /\ action_observations' = IF Exists(id) THEN CascadeObservation(action_observations, id)
                              ELSE action_observations
    /\ actions' = {a \in actions : ~\E l \in action_observations :
                                      l.action_id = a.id /\ l.observation_id = id /\ Exists(id)}
    /\ result' = [NoResult EXCEPT !.op = "deleteObservation", !.id = id,
                                  !.existed = Exists(id),
                                  !.ret = IF Exists(id) THEN "true" ELSE "false"]
    /\ UNCHANGED <<pc, foreign_keys, scanner, tables, obs_columns, disp_default, obs_seq, projects,
                   proj_seq, act_seq, now>>

\* deleteObservation(db, id)
DeleteObservation(id) ==
    /\ pc = "serving"
    /\ observations' = {r \in observations : r.id # id}
    /\ action_observations' = IF Exists(id) THEN CascadeObservation(action_observations, id)
                              ELSE action_observations
    /\ result' = [NoResult EXCEPT !.op = "deleteObservation", !.id = id,
                                  !.existed = Exists(id),
                                  !.ret = IF Exists(id) THEN "true" ELSE "false"]
    /\ UNCHANGED <<pc, foreign_keys, scanner, tables, obs_columns, disp_default, obs_seq, projects,
                   proj_seq, actions, act_seq, now>>

\* mutant of getObservationsByIds: one SELECT per element of ids, a repeated id
\* yields its row again
RECURSIVE getObservationsPerId(_)
getObservationsPerId(ids) ==
    IF ids = <<>> THEN <<>>
    ELSE (IF Exists(Head(ids)) THEN <<Row(Head(ids))>> ELSE <<>>) \o getObservationsPerId(Tail(ids))

----------------------------------------------------------------------------
(* Action log *)

\* mutant of LinkInsertFails: INSERT OR IGNORE, a repeated pair is skipped silently
LinkInsertIgnoresRepeat(links, aid, oid) == foreign_keys /\ ~Exists(oid)

\* INSERT INTO action_observations: fails on a repeated pair (PRIMARY KEY) and,
\* when foreign keys are enforced, on an observation id with no row
LinkInsertFails(links, aid, oid) ==
    \/ [action_id |-> aid, observation_id |-> oid] \in links
    \/ (foreign_keys /\ ~Exists(oid))

\* mutant of InsertLinks: a failing insert is remembered and the loop goes on
RECURSIVE InsertLinksSkipping(_, _, _, _)
InsertLinksSkipping(links, aid, ids, k) ==
    IF k > Len(ids) THEN [links |-> links, failed |-> 0]
    ELSE IF LinkInsertFails(links, aid, ids[k])
         THEN [links |-> InsertLinksSkipping(links, aid, ids, k + 1).links, failed |-> k]
         ELSE InsertLinksSkipping(links \cup {[action_id |-> aid, observation_id |-> ids[k]]},
                                  aid, ids, k + 1)

\* for (const obsId of data.observation_ids) linkStmt.run(action.id, obsId):
\* the link rows afterwards and the index of the insert that threw (0: none)
RECURSIVE InsertLinks(_, _, _, _)
InsertLinks(links, aid, ids, k) ==
    IF k > Len(ids) THEN [links |-> links, failed |-> 0]
    ELSE IF LinkInsertFails(links, aid, ids[k]) THEN [links |-> links, failed |-> k]
    ELSE InsertLinks(links \cup {[action_id |-> aid, observation_id |-> ids[k]]}, aid, ids, k + 1)

\* INSERT INTO actions (description, source, reference, project) VALUES (?, ?, ?, ?) RETURNING *
NewAction(id, description, source, reference, project) ==
    [id |-> id, description |-> description,
     source |-> IF source = NULL THEN HUMAN ELSE source,
     reference |-> reference, project |-> project, created_at |-> now]

\* createAction(db, {description, source, reference, project, observation_ids})
CreateAction(description, source, reference, project, observation_ids) ==
    /\ pc = "serving"
    /\ LET action == NewAction(act_seq + 1, description, source, reference, project)
           ins == InsertLinks(action_observations, action.id, observation_ids, 1)
       IN  /\ actions' = actions \cup {action}
           /\ act_seq' = act_seq + 1
           /\ action_observations' = ins.links
           /\ result' = [NoResult EXCEPT !.op = "createAction", !.id = action.id,
                                         !.ret = IF ins.failed = 0 THEN "row" ELSE "throw",
                                         !.row = action, !.ids = observation_ids,
                                         !.nsets = ins.failed]
    /\ UNCHANGED <<pc, foreign_keys, scanner, tables, obs_columns, disp_default, observations, obs_seq,
                   projects, proj_seq, now>>

\* ORDER BY created_at DESC over a set of rows (rows of equal created_at in rowid order)
RECURSIVE OrderByCreatedDesc(_)
OrderByCreatedDesc(rows) ==
    IF rows = {} THEN <<>>
    ELSE LET first == CHOOSE r \in rows : \A q \in rows :
                          \/ r.created_at > q.created_at
                          \/ (r.created_at = q.created_at /\ r.id <= q.id)
         IN  <<first>> \o OrderByCreatedDesc(rows \ {first})

\* getActionsForObservation(db, observationId):
\* SELECT a.* FROM actions a JOIN action_observations ao ON ao.action_id = a.id WHERE ao.observation_id = ?
getActionsForObservation(observationId) ==
    OrderByCreatedDesc({a \in actions : \E l \in action_observations :
                            l.action_id = a.id /\ l.observation_id = observationId})

\* if (filters?.observation_id): a number other than 0; an absent observation_id
\* is written 0 here, the test takes the same branch for both
NumberTruthy(n) == n # 0

\* mutant of LinkedActionIds: the subquery is not restricted to the observation
LinkedActionIdsAll(observationId) == {l.action_id : l \in action_observations}

\* SELECT action_id FROM action_observations WHERE observation_id = ?
LinkedActionIds(observationId) ==
    {l.action_id : l \in {m \in action_observations : m.observation_id = observationId}}

\* the rows SELECT a.* FROM actions a [WHERE ...] keeps for the filters
ActionsMatching(filters) ==
    {a \in actions :
        /\ Truthy(filters.project) => a.project = filters.project
        /\ NumberTruthy(filters.observation_id) =>
               a.id \in LinkedActionIds(filters.observation_id)}

\* a set of ids as the engine walks them in the primary key index of action_observations
RECURSIVE Ascending(_)
Ascending(ids) ==
    IF ids = {} THEN <<>>
    ELSE LET least == CHOOSE i \in ids : \A j \in ids : i <= j
         IN  <<least>> \o Ascending(ids \ {least})

\* SELECT observation_id FROM action_observations WHERE action_id = ?, read when
\* listActions runs; { ...action, observation_ids: links.map(...) }
WithObservationIds(action) ==
    [id |-> action.id, description |-> action.description, source |-> action.source,
     reference |-> action.reference, project |-> action.project,
     created_at |-> action.created_at,
     observation_ids |-> Ascending({l.observation_id :
                                       l \in {m \in action_observations : m.action_id = action.id}})]

\* listActions(db, filters)
listActions(filters) ==
    LET found == OrderByCreatedDesc(ActionsMatching(filters))
    IN  [k \in 1..Len(found) |-> WithObservationIds(found[k])]

ListActions(filters) ==
    /\ pc = "serving"
    /\ result' = [NoResult EXCEPT !.op = "listActions", !.ret = "rows",
                                  !.rows = listActions(filters),
                                  !.id = IF NumberTruthy(filters.observation_id)
                                            THEN filters.observation_id ELSE 0,
                                  !.nsets = Cardinality({f \in {"project"} : Truthy(filters.project)}
                                               \cup {f \in {"observation_id"} :
                                                        NumberTruthy(filters.observation_id)})]
    /\ UNCHANGED <<pc, foreign_keys, scanner, store, now>>

\* the conditions listObservations pushes: one per filter that is truthy
Conditions(filters) == {f \in {"disposition", "source", "project"} : Truthy(filters[f])}

\* listObservations(db, filters):
\* SELECT * FROM observations [WHERE c1 AND c2 ...] ORDER BY created_at DESC
listObservations(filters) ==
    OrderByCreatedDesc({r \in observations : \A f \in Conditions(filters) : r[f] = filters[f]})

ListObservations(filters) ==
    /\ pc = "serving"
    /\ result' = [NoResult EXCEPT !.op = "listObservations", !.ret = "rows",
                                  !.rows = listObservations(filters),
                                  !.nsets = Cardinality(Conditions(filters))]
    /\ UNCHANGED <<pc, foreign_keys, scanner, store, now>>

\* getObservationsByIds(db, ids): [] for an empty list, else
\* SELECT * FROM observations WHERE id IN (?, ?, ...) ORDER BY created_at DESC
getObservationsByIds(ids) ==
    IF Len(ids) = 0 THEN <<>>
    ELSE OrderByCreatedDesc({r \in observations : \E k \in 1..Len(ids) : ids[k] = r.id})

\* result.nsets: the statements the call prepared and ran (none for an empty list)
GetObservationsByIds(ids) ==
    /\ pc = "serving"
    /\ result' = [NoResult EXCEPT !.op = "getObservationsByIds", !.ret = "rows",
                                  !.rows = getObservationsByIds(ids),
                                  !.ids = ids,
                                  !.nsets = IF Len(ids) = 0 THEN 0 ELSE 1]
    /\ UNCHANGED <<pc, foreign_keys, scanner, store, now>>

----------------------------------------------------------------------------
(* HTTP adapter: the observation routes of createApp *)

\* a JSON value of a request body field: absent, a string or a number
JUndefined == [type |-> "undefined", str |-> <<>>, num |-> 0]
JString(s) == [type |-> "string", str |-> s, num |-> 0]
JNumber(n) == [type |-> "number", str |-> <<>>, num |-> n]

\* JS truthiness of a JSON value
JTruthy(j) == \/ (j.type = "string" /\ j.str # <<>>)
              \/ (j.type = "number" /\ j.num # 0)

\* typeof j === "string" ? j.trim() : null
TrimmedOrNull(j) == IF j.type = "string" THEN Trim(j.str) ELSE NULL

\* parseInt(c.req.param("id"), 10) of a path segment: a number or NaN
PathNumber(n) == [nan |-> FALSE, n |-> n]
PathNaN == [nan |-> TRUE, n |-> 0]

BadRequest(route) ==
    /\ result' = [NoResult EXCEPT !.op = route, !.http = 400]
    /\ UNCHANGED <<pc, foreign_keys, scanner, store, now>>

\* POST /api/observations
PostObservation(body) ==
    /\ pc = "serving"
    /\ LET source == IF body.source.type = "string" /\ Trim(body.source.str) # <<>>
                     THEN Trim(body.source.str) ELSE HUMAN
           project == IF body.project.type = "string" /\ Trim(body.project.str) # <<>>
                      THEN Trim(body.project.str) ELSE NULL
       IN  IF ~JTruthy(body.text) \/ body.text.type # "string" \/ Trim(body.text.str) = <<>>
           THEN BadRequest("POST")
           ELSE IF ~Truthy(project)
           THEN BadRequest("POST")
           ELSE CreateObservation(Trim(body.text.str), source, project)

\* the updates record the PATCH route hands to updateObservation
PatchUpdates(body) ==
    [text |-> TrimmedOrNull(body.text),
     source |-> TrimmedOrNull(body.source),
     disposition |-> IF body.disposition.type = "string" THEN body.disposition.str ELSE NULL,
     project |-> TrimmedOrNull(body.project)]

\* body.disposition && !isValidDisposition(body.disposition)
PatchRejects(body) ==
    JTruthy(body.disposition) /\
    ~(body.disposition.type = "string" /\ isValidDisposition(body.disposition.str))

\* PATCH /api/observations/:id
PatchObservation(id, body) ==
    /\ pc = "serving"
    /\ IF id.nan THEN BadRequest("PATCH")
       ELSE IF PatchRejects(body) THEN BadRequest("PATCH")
       ELSE UpdateObservation(id.n, PatchUpdates(body))

\* DELETE /api/observations/:id
DeleteObservationRoute(id) ==
    /\ pc = "serving"
    /\ IF id.nan THEN BadRequest("DELETE")
       ELSE DeleteObservation(id.n)

\* the status of the response to the last request
ResponseStatus ==
    CASE result.http # 0 -> result.http
      [] result.ret = "throw" -> 500
      [] result.op = "createObservation" -> 201
      [] result.op = "updateObservation" -> IF result.ret = "null" THEN 404 ELSE 200
      [] result.op = "deleteObservation" -> IF result.ret = "false" THEN 404 ELSE 204
      [] OTHER -> 0

----------------------------------------------------------------------------
(* Repository scanner: scan.ts.  A path is a sequence of names, a name is *)
(* a string (a sequence of tokens); "." and "~" are tokens of their own.   *)

DOT == "."
TILDE == "~"
GIT_SUFFIX == ".git"
SLASH == "/"
SSH_PREFIX == "git@github.com:"
HTTPS_PREFIX == "https://github.com/"
HTTP_PREFIX == "http://github.com/"
GITLAB_PREFIX == "git@gitlab.com:"

\* process.env.HOME
HOME == <<S("home")>>

NODE_MODULES == S("node_modules")

\* the directories of the file system, in the order readdir returns them
Directories ==
    <<HOME,
      HOME \o <<S("work")>>,
      HOME \o <<NODE_MODULES>>,
      HOME \o <<S("repoA")>>,
      HOME \o <<<<DOT, "cache">>>>,
      HOME \o <<S("repoA"), S("nested")>>,
      HOME \o <<S("work"), S("repoB")>>,
      HOME \o <<S("work"), NODE_MODULES>>>>

\* the regular files of the file system
Files == <<HOME \o <<S("notes")>>>>

DirectorySet == {Directories[i] : i \in 1..Len(Directories)}

Parent(path) == SubSeq(path, 1, Len(path) - 1)
Basename(path) == path[Len(path)]

\* Dirent: name and isDirectory()
Dirent(path, isDir) == [name |-> Basename(path), isDirectory |-> isDir]

RECURSIVE EntriesOf(_, _, _)
EntriesOf(dir, paths, isDir) ==
    IF paths = <<>> THEN <<>>
    ELSE (IF Len(Head(paths)) > 0 /\ Parent(Head(paths)) = dir
             THEN <<Dirent(Head(paths), isDir)>> ELSE <<>>)
         \o EntriesOf(dir, Tail(paths), isDir)

\* await readdir(dir, {withFileTypes: true}): the entries, or "throw"
\* mutant of Readdir: a directory that cannot be read is listed like any other
ReaddirNeverThrows(dir) ==
    [threw |-> FALSE,
     entries |-> (IF dir \in fs_git THEN <<[name |-> <<DOT, "git">>, isDirectory |-> TRUE]>> ELSE <<>>)
                 \o EntriesOf(dir, Directories, TRUE)
                 \o EntriesOf(dir, Files, FALSE)]

\* await readdir(dir, { withFileTypes: true }): throws, or the entries of dir
Readdir(dir) ==
    IF dir \notin DirectorySet \/ dir \in fs_unreadable
    THEN [threw |-> TRUE, entries |-> <<>>]
    ELSE [threw |-> FALSE,
          entries |-> (IF dir \in fs_git THEN <<[name |-> <<DOT, "git">>, isDirectory |-> TRUE]>> ELSE <<>>)
                      \o EntriesOf(dir, Directories, TRUE)
                      \o EntriesOf(dir, Files, FALSE)]

\* entries.some((e) => e.name === ".git")
HasGit(entries) == \E i \in 1..Len(entries) : entries[i].name = <<DOT, "git">>

\* entry.name.startsWith(".")
StartsWithDot(name) == name # <<>> /\ Head(name) = DOT

\* mutant of Enqueue: node_modules is walked like any directory
RECURSIVE EnqueueNodeModules(_, _, _)
EnqueueNodeModules(q, dir, entries) ==
    IF entries = <<>> THEN q
    ELSE EnqueueNodeModules(IF /\ Head(entries).isDirectory
                               /\ ~StartsWithDot(Head(entries).name)
                            THEN Append(q, dir \o <<Head(entries).name>>) ELSE q,
                            dir, Tail(entries))

\* mutant of Enqueue: every subdirectory is pushed twice
RECURSIVE EnqueueTwice(_, _, _)
EnqueueTwice(q, dir, entries) ==
    IF entries = <<>> THEN q
    ELSE EnqueueTwice(IF /\ Head(entries).isDirectory
                         /\ Head(entries).name # NODE_MODULES
                         /\ ~StartsWithDot(Head(entries).name)
                      THEN Append(Append(q, dir \o <<Head(entries).name>>),
                                  dir \o <<Head(entries).name>>)
                      ELSE q,
                      dir, Tail(entries))

\* for (const entry of entries) if (isDirectory && name !== "node_modules" && !startsWith("."))
\*     queue.push(join(dir, entry.name))
RECURSIVE Enqueue(_, _, _)
Enqueue(q, dir, entries) ==
    IF entries = <<>> THEN q
    ELSE Enqueue(IF /\ Head(entries).isDirectory
                    /\ Head(entries).name # NODE_MODULES
                    /\ ~StartsWithDot(Head(entries).name)
                 THEN Append(q, dir \o <<Head(entries).name>>) ELSE q,
                 dir, Tail(entries))

\* mutant of Visit: a repository root is pushed onto roots twice
VisitRecordsTwice(dir, rest, entries) ==
    IF HasGit(entries)
    THEN [roots |-> Append(Append(roots, dir), dir), queue |-> rest]
    ELSE [roots |-> roots, queue |-> Enqueue(rest, dir, entries)]

\* mutant of Visit: a repository root is recorded and walked into
VisitDescending(dir, rest, entries) ==
    [roots |-> IF HasGit(entries) THEN Append(roots, dir) ELSE roots,
     queue |-> Enqueue(rest, dir, entries)]

\* the body of the while loop of findGitRoots after readdir returned entries
Visit(dir, rest, entries) ==
    IF HasGit(entries)
    THEN [roots |-> Append(roots, dir), queue |-> rest]
    ELSE [roots |-> roots, queue |-> Enqueue(rest, dir, entries)]

\* rootPath.startsWith("~") ? rootPath.replace("~", process.env.HOME || "") : rootPath,
\* then resolve()
Expand(rootPath) ==
    IF rootPath # <<>> /\ Head(rootPath) # <<>> /\ Head(Head(rootPath)) = TILDE
    THEN <<Head(HOME) \o Tail(Head(rootPath))>> \o Tail(rootPath)
    ELSE rootPath

\* mutant of StripGit: the suffix stays in the repository name
StripGitNever(tail) == tail

\* ([^/]+?)(?:\.git)?$ over the text after the separator: the lazy group gives up a
\* final ".git" whenever something is left in front of it
StripGit(tail) ==
    IF Len(tail) >= 2 /\ tail[Len(tail)] = GIT_SUFFIX
    THEN SubSeq(tail, 1, Len(tail) - 1) ELSE tail

\* ([^/]+)\/([^/]+?)(?:\.git)?$ over the text after the host prefix
MatchOwnerRepo(rest) ==
    LET slashes == {i \in 1..Len(rest) : rest[i] = SLASH}
    IN  IF Cardinality(slashes) # 1 THEN NULL
        ELSE LET i == CHOOSE k \in slashes : TRUE
                 owner == SubSeq(rest, 1, i - 1)
                 tail == SubSeq(rest, i + 1, Len(rest))
             IN  IF owner = <<>> \/ tail = <<>> THEN NULL
                 ELSE owner \o <<SLASH>> \o StripGit(tail)

\* parseGitHubRepo(url)
parseGitHubRepo(url) ==
    LET sshMatch == IF url # <<>> /\ Head(url) = SSH_PREFIX
                    THEN MatchOwnerRepo(Tail(url)) ELSE NULL
        httpsMatch == IF url # <<>> /\ Head(url) \in {HTTPS_PREFIX, HTTP_PREFIX}
                      THEN MatchOwnerRepo(Tail(url)) ELSE NULL
    IN  IF sshMatch # NULL THEN sshMatch ELSE httpsMatch

\* what the git process does: it cannot be spawned, exits non-zero, exits 0 with
\* this stdout, or never exits
SpawnThrows == [kind |-> "throw", stdout |-> <<>>]
ExitsNonZero == [kind |-> "exit", stdout |-> <<>>]
Exits0(out) == [kind |-> "ok", stdout |-> out]
NeverExits == [kind |-> "never", stdout |-> <<>>]

\* getOriginUrl(repoPath), for a process that ends
getOriginUrl(proc) ==
    IF proc.kind = "throw" THEN NULL
    ELSE IF proc.kind = "exit" THEN NULL
    ELSE IF Trim(proc.stdout) # <<>> THEN Trim(proc.stdout) ELSE NULL

\* the tokens by ascending UTF-16 code units
TokenOrder == <<GIT_SUFFIX, SLASH, "acme", "b", "widgets">>
CodeUnits(tok) == CHOOSE i \in 1..Len(TokenOrder) : TokenOrder[i] = tok

\* a < b as Array.prototype.sort compares strings
RECURSIVE StringLess(_, _)
StringLess(a, b) ==
    IF b = <<>> THEN FALSE
    ELSE IF a = <<>> THEN TRUE
    ELSE IF Head(a) # Head(b) THEN CodeUnits(Head(a)) < CodeUnits(Head(b))
    ELSE StringLess(Tail(a), Tail(b))

\* [...new Set(candidates)]: first occurrences, in order
RECURSIVE NewSet(_)
NewSet(seq) ==
    IF seq = <<>> THEN <<>>
    ELSE LET init == NewSet(SubSeq(seq, 1, Len(seq) - 1))
             last == seq[Len(seq)]
         IN  IF \E i \in 1..Len(init) : init[i] = last THEN init ELSE Append(init, last)

\* mutant of ArraySort: the array is returned as it was built
ArrayUnsorted(seq) == seq

\* .sort()
RECURSIVE ArraySort(_)
ArraySort(seq) ==
    IF seq = <<>> THEN <<>>
    ELSE LET i == CHOOSE k \in 1..Len(seq) :
                      \A m \in 1..Len(seq) : ~StringLess(seq[m], seq[k]) /\ (seq[m] = seq[k] => k <= m)
         IN  <<seq[i]>> \o ArraySort(SubSeq(seq, 1, i - 1) \o SubSeq(seq, i + 1, Len(seq)))

\* scanForGitRepos(rootPath) is called: findGitRoots begins
ScanForGitRepos(rootPath) ==
    /\ scan_pc \in {"idle", "done"}
    /\ scan_pc' = "walking"
    /\ scan_root' = rootPath
    /\ queue' = <<Expand(rootPath)>>
    /\ roots' = <<>>
    /\ listed' = {}
    /\ popped' = <<>>
    /\ urls' = <<>>
    /\ candidates' = <<>>
    /\ scan_ret' = <<>>
    /\ UNCHANGED <<pc, foreign_keys, store, now, result, fs_git, fs_unreadable>>

\* one turn of the while loop of findGitRoots
FindGitRoots ==
    /\ scan_pc = "walking"
    /\ queue # <<>>
    /\ LET dir == Head(queue)
           rd == Readdir(dir)
           v == Visit(dir, Tail(queue), rd.entries)
       IN  /\ popped' = Append(popped, dir)
           /\ IF rd.threw
              THEN /\ queue' = Tail(queue)
                   /\ UNCHANGED <<roots, listed>>
              ELSE /\ listed' = listed \cup {dir}
                   /\ roots' = v.roots
                   /\ queue' = v.queue
    /\ UNCHANGED <<pc, foreign_keys, store, now, result, fs_git, fs_unreadable, scan_root,
                   scan_pc, urls, candidates, scan_ret>>

\* the queue is empty: findGitRoots returns roots
FindGitRootsReturns ==
    /\ scan_pc = "walking"
    /\ queue = <<>>
    /\ scan_pc' = "lookup"
    /\ UNCHANGED <<pc, foreign_keys, store, now, result, fs_git, fs_unreadable, scan_root,
                   queue, roots, listed, popped, urls, candidates, scan_ret>>

\* one turn of the for loop of scanForGitRepos: await getOriginUrl(root), parse, push
LookupOrigin(proc) ==
    /\ scan_pc = "lookup"
    /\ Len(urls) < Len(roots)
    /\ IF proc.kind = "never"
       THEN /\ scan_pc' = "waiting"
            /\ UNCHANGED <<urls, candidates>>
       ELSE LET url == getOriginUrl(proc)
                repo == IF Truthy(url) THEN parseGitHubRepo(url) ELSE NULL
            IN  /\ urls' = Append(urls, url)
                /\ candidates' = IF Truthy(repo) THEN Append(candidates, repo) ELSE candidates
                /\ scan_pc' = scan_pc
    /\ UNCHANGED <<pc, foreign_keys, store, now, result, fs_git, fs_unreadable, scan_root,
                   queue, roots, listed, popped, scan_ret>>

\* return [...new Set(candidates)].sort()
ScanReturns ==
    /\ scan_pc = "lookup"
    /\ Len(urls) = Len(roots)
    /\ scan_ret' = ArraySort(NewSet(candidates))
    /\ scan_pc' = "done"
    /\ UNCHANGED <<pc, foreign_keys, store, now, result, fs_git, fs_unreadable, scan_root,
                   queue, roots, listed, popped, urls, candidates>>

----------------------------------------------------------------------------
(* Callers of the store: inputs *)

Failures == MigrationStatements \cup {"none"}

\* ids of rows, of deleted rows and of rows that never existed
ObsIds == 1..(MaxObs + 1)
RowIds == 1..(MaxRows + 1)

Texts == {S("a")}
CreateSources == {NULL, S("claude")}
ProjectNames == {S("o/r")}

AllNull == [text |-> NULL, source |-> NULL, disposition |-> NULL, project |-> NULL]

\* update records: no field, one field, or every field provided
Updates == {u \in [text : {NULL, S("b")}, source : {NULL, S("claude")},
                   disposition : {NULL, S("addressed")}, project : {NULL, S("o/r")}] :
               Cardinality({f \in DOMAIN u : u[f] # NULL}) \in {0, 1, 4}}

\* observation_ids lists: ids of rows, of deleted rows and of rows that never existed; repeats
IdLists == UNION {[1..n -> ObsIds] : n \in 0..MaxLinks}

----------------------------------------------------------------------------
(* Spec: the action log over a new database file.  Observations are created *)
(* and deleted, actions are created with arbitrary observation_ids lists.  *)

InitFresh ==
    /\ pc = "down"
    /\ foreign_keys \in BOOLEAN
    /\ now = 0
    /\ result = NoResult
    /\ ScannerIdle
    /\ InitStore("fresh", {})

Next ==
    \/ \E fail \in Failures : InitDatabase(fail)
    \/ obs_seq < MaxObs /\ CreateObservation(S("a"), NULL, NULL)
    \/ \E id \in ObsIds : DeleteObservation(id)
    \/ act_seq < MaxAct /\ \E ids \in IdLists : CreateAction(S("d"), NULL, NULL, NULL, ids)

Spec == InitFresh /\ [][Next]_vars

----------------------------------------------------------------------------
(* SpecObs: the observation store over a new database file, over a file of *)
(* the earliest schema holding one row (inserts fail there: no source      *)
(* column) and over an empty file of the schema before the rename.         *)

InitObs ==
    /\ pc = "down"
    /\ foreign_keys = FALSE
    /\ now = 0
    /\ result = NoResult
    /\ ScannerIdle
    /\ \/ InitStore("fresh", {})
       \/ InitStore("v0", {LegacyRow(1, S("observed"), NULL)})
       \/ InitStore("v1", {})

NextObs ==
    \/ \E fail \in Failures : InitDatabase(fail)
    \/ Tick
    \/ obs_seq < MaxRows /\
          \E text \in Texts, source \in CreateSources, project \in ProjectNames \cup {NULL} :
             CreateObservation(text, source, project)
    \/ \E id \in RowIds, updates \in Updates : UpdateObservation(id, updates)
    \/ \E id \in RowIds : DeleteObservation(id)

SpecObs == InitObs /\ [][NextObs]_vars

----------------------------------------------------------------------------
(* SpecMigrate: process starts and restarts over every kind of database file *)

NextMigrate ==
    \/ \E fail \in Failures : InitDatabase(fail)
    \/ Shutdown
    \/ Tick
    \/ obs_seq < MaxLegacy + 1 /\ \E source \in CreateSources : CreateObservation(S("a"), source, NULL)

SpecMigrate == Init /\ [][NextMigrate]_vars

----------------------------------------------------------------------------
(* SpecHttp: requests to the observation routes over a new database file   *)

JTexts == {JUndefined, JString(<<>>), JString(<<WS>>), JString(<<WS, "t", WS>>), JNumber(5)}
JSources == {JUndefined, JString(S("bot"))}
JDispositions == {JUndefined, JString(<<>>), JString(S("addressed")), JString(S("bogus")),
                  JNumber(0), JNumber(5)}
JProjects == {JUndefined, JString(S("o/r")), JString(<<WS>>)}

\* request bodies with at most two fields present
Bodies == {b \in [text : JTexts, source : JSources, disposition : JDispositions, project : JProjects] :
              Cardinality({f \in DOMAIN b : b[f] # JUndefined}) <= 2}

PathIds == {PathNumber(n) : n \in RowIds} \cup {PathNaN}

NextHttp ==
    \/ \E fail \in Failures : InitDatabase(fail)
    \/ obs_seq < MaxRows /\ \E body \in Bodies : PostObservation(body)
    \/ \E id \in PathIds, body \in Bodies : PatchObservation(id, body)
    \/ \E id \in PathIds : DeleteObservationRoute(id)

SpecHttp == InitFresh /\ [][NextHttp]_vars

----------------------------------------------------------------------------
(* SpecProj: the project registry over a new database file                 *)

MaxProj == 2       \* projects ever inserted before a further insert is tried
MaxNames == 3      \* length of a createProjectsBulk names list

RegistryNames == {S("a"), S("b")}
NameLists == UNION {[1..n -> RegistryNames] : n \in 0..MaxNames}
ProjIds == 1..(MaxProj + 1)

NextProj ==
    \/ \E fail \in Failures : InitDatabase(fail)
    \/ Tick
    \/ proj_seq < MaxProj /\ \E name \in RegistryNames : CreateProject(name)
    \/ proj_seq < MaxProj /\ \E names \in NameLists : CreateProjectsBulk(names)
    \/ \E id \in ProjIds : DeleteProject(id)

SpecProj == InitFresh /\ [][NextProj]_vars

----------------------------------------------------------------------------
(* SpecRefs: observations and actions that name projects, and the registry *)

\* project of a new observation: none, the empty string, a name
ObsProjects == {NULL, <<>>, S("a")}

NextRefs ==
    \/ \E fail \in Failures : InitDatabase(fail)
    \/ proj_seq < MaxProj /\ CreateProject(S("a"))
    \/ \E id \in ProjIds : DeleteProject(id)
    \/ obs_seq < MaxRows /\ \E project \in ObsProjects : CreateObservation(S("a"), NULL, project)
    \/ act_seq < MaxAct /\ \E project \in {NULL, S("a")}, ids \in {<<>>, <<1>>} :
          CreateAction(S("d"), NULL, NULL, project, ids)

SpecRefs == InitFresh /\ [][NextRefs]_vars

----------------------------------------------------------------------------
(* SpecUpd: updates over several rows of a new database file (the clock    *)
(* stands still here; SpecObs covers the time stamps)                      *)

InitUpd ==
    /\ pc = "down"
    /\ foreign_keys = FALSE
    /\ now = 0
    /\ result = NoResult
    /\ ScannerIdle
    /\ InitStore("fresh", {})

NextUpd ==
    \/ \E fail \in Failures : InitDatabase(fail)
    \/ obs_seq < MaxObs /\ CreateObservation(S("a"), NULL, NULL)
    \/ \E id \in ObsIds, updates \in Updates : UpdateObservation(id, updates)

SpecUpd == InitUpd /\ [][NextUpd]_vars

----------------------------------------------------------------------------
(* SpecList: listObservations over the rows the store's operations leave   *)

ListSources == {NULL, <<>>, S("claude")}

Filters == [disposition : {NULL, <<>>, S("open"), S("addressed")},
            source : {NULL, <<>>, S("claude")},
            project : {NULL, <<>>, S("o/r")}]

ListUpdates == {[AllNull EXCEPT !.disposition = S("addressed")]}

NextList ==
    \/ \E fail \in Failures : InitDatabase(fail)
    \/ Tick
    \/ obs_seq < MaxObs /\ \E source \in ListSources, project \in ProjectNames \cup {NULL} :
          CreateObservation(S("a"), source, project)
    \/ \E id \in ObsIds, updates \in ListUpdates : UpdateObservation(id, updates)
    \/ \E filters \in Filters : ListObservations(filters)

SpecList == InitFresh /\ [][NextList]_vars

----------------------------------------------------------------------------
(* SpecActs: listActions and getActionsForObservation over the actions and *)
(* links that createAction and deleteObservation leave.                    *)

ActionProjects == {NULL, S("a")}

\* observation_ids: none or one id
ActIdLists == {<<>>} \cup {<<id>> : id \in RowIds}

ActionFilters == [project : ActionProjects, observation_id : {0} \cup RowIds]

NextActs ==
    \/ InitDatabase("none")
    \/ Tick
    \/ obs_seq < MaxRows /\ CreateObservation(S("a"), NULL, NULL)
    \/ \E id \in RowIds : DeleteObservation(id)
    \/ act_seq < MaxAct + 1 /\ \E ids \in ActIdLists : CreateAction(S("d"), NULL, NULL, NULL, ids)
    \/ \E filters \in ActionFilters : ListActions(filters)

SpecActs == InitFresh /\ [][NextActs]_vars

----------------------------------------------------------------------------
(* SpecRead: getObservationsByIds over observations created at different   *)
(* times and deleted again.                                                *)

NextRead ==
    \/ InitDatabase("none")
    \/ Tick
    \/ obs_seq < MaxObs /\ CreateObservation(S("a"), NULL, NULL)
    \/ \E id \in ObsIds : DeleteObservation(id)
    \/ \E ids \in IdLists : GetObservationsByIds(ids)

SpecRead == InitFresh /\ [][NextRead]_vars

----------------------------------------------------------------------------
(* SpecLog: every operation of the store that writes, with createAction    *)
(* called as the adapter calls it: observation_ids is never empty.         *)

\* observation_ids naming one observation: a row, a deleted row or a row that never existed
LogIdLists == {<<id>> : id \in RowIds}

NextLog ==
    \/ \E fail \in Failures : InitDatabase(fail)
    \/ obs_seq < MaxRows /\ CreateObservation(S("a"), NULL, NULL)
    \/ \E id \in RowIds, updates \in ListUpdates : UpdateObservation(id, updates)
    \/ \E id \in RowIds : DeleteObservation(id)
    \/ proj_seq < MaxRows /\ CreateProject(S("a"))
    \/ \E id \in RowIds : DeleteProject(id)
    \/ act_seq < MaxAct + 1 /\ \E ids \in LogIdLists : CreateAction(S("d"), NULL, NULL, NULL, ids)

SpecLog == InitFresh /\ [][NextLog]_vars

----------------------------------------------------------------------------
(* SpecScan: scanForGitRepos over every placement of .git entries in the   *)
(* file system; SpecScanLive adds that a scan that can take a step does.   *)

\* remote URLs of the repositories
RemoteUrls ==
    {<<SSH_PREFIX, "acme", SLASH, "widgets", GIT_SUFFIX>>,
     <<HTTPS_PREFIX, "acme", SLASH, "widgets">>,
     <<HTTP_PREFIX, "b", SLASH, "widgets", GIT_SUFFIX>>,
     <<HTTPS_PREFIX, "acme", SLASH, "b", GIT_SUFFIX>>,
     <<GITLAB_PREFIX, "acme", SLASH, "widgets">>,
     <<SSH_PREFIX, SLASH, "widgets">>,
     <<SSH_PREFIX, "acme", SLASH>>,
     <<HTTPS_PREFIX, "acme", SLASH, "widgets", SLASH, "b">>,
     <<SSH_PREFIX, "acme", SLASH, GIT_SUFFIX>>}

\* git prints the URL and a newline; without a remote it fails
GitProcesses ==
    {SpawnThrows, ExitsNonZero, NeverExits, Exits0(<<>>), Exits0(<<WS>>)}
    \cup {Exits0(Append(u, WS)) : u \in RemoteUrls}

RootPaths == {HOME, <<S(TILDE)>>, <<S(TILDE), S("work")>>, <<S("missing")>>}

InitScan ==
    /\ pc = "down"
    /\ foreign_keys = FALSE
    /\ now = 0
    /\ result = NoResult
    /\ InitStore("fresh", {})
    /\ fs_git \in SUBSET DirectorySet
    /\ fs_unreadable \in SUBSET {HOME \o <<S("work")>>}
    /\ scan_root = <<>>
    /\ scan_pc = "idle"
    /\ queue = <<>>
    /\ roots = <<>>
    /\ listed = {}
    /\ popped = <<>>
    /\ urls = <<>>
    /\ candidates = <<>>
    /\ scan_ret = <<>>

NextScan ==
    \/ \E rootPath \in RootPaths : ScanForGitRepos(rootPath)
    \/ FindGitRoots
    \/ FindGitRootsReturns
    \/ \E proc \in GitProcesses : LookupOrigin(proc)
    \/ ScanReturns

SpecScan == InitScan /\ [][NextScan]_vars

SpecScanLive == SpecScan /\ WF_vars(NextScan)

----------------------------------------------------------------------------
(* Claims C1..C3: the action log (Spec) *)

\* C1: after deleteObservation(id) returns true, no row of action_observations
\* has observation_id = id and getActionsForObservation(id) is empty.
C1_DeleteRemovesLinks ==
    (result.op = "deleteObservation" /\ result.ret = "true") =>
        /\ \A l \in action_observations : l.observation_id # result.id
        /\ getActionsForObservation(result.id) = <<>>

\* C2: every row of action_observations references an existing action and an
\* existing observation.
C2_NoOrphanLinks ==
    \A l \in action_observations :
        /\ \E a \in actions : a.id = l.action_id
        /\ Exists(l.observation_id)

\* C3: createAction is all-or-nothing: when it returns, the action row and a link
\* row for every id of observation_ids are present; when it raises, neither the
\* action row nor any link row of it is present.
C3_CreateActionAllOrNothing ==
    result.op = "createAction" =>
        IF result.ret = "row"
        THEN /\ result.row \in actions
             /\ \A k \in 1..Len(result.ids) :
                   [action_id |-> result.id, observation_id |-> result.ids[k]] \in action_observations
        ELSE /\ \A a \in actions : a.id # result.id
             /\ \A l \in action_observations : l.action_id # result.id

----------------------------------------------------------------------------
(* Claims C4..C6: the observation store (SpecObs) *)

\* C4: the observation createObservation returns has disposition 'open' and
\* created_at = updated_at, whatever the input and the schema's history.
C4_CreatedOpenAndStamped ==
    (result.op = "createObservation" /\ result.ret = "row") =>
        /\ result.row.disposition = OPEN
        /\ result.row.created_at = result.row.updated_at
        /\ result.row \in observations

\* a row was created in a store whose disposition column was renamed from status
C4_Witness ==
    /\ result.op = "createObservation"
    /\ result.ret = "row"
    /\ disp_default = S("observed")
    /\ "disposition" \in obs_columns

\* C5: updateObservation with every field null writes nothing, and for an existing
\* id its result differs from the null that a call on a missing id returns.
C5_NoopDistinctFromNotFound ==
    [][\A id \in RowIds :
          (UpdateObservation(id, AllNull) /\ Exists(id)) =>
              /\ observations' = observations
              /\ result'.ret # "null"]_vars

\* C6: an observation's updated_at never decreases, and every updateObservation
\* call that provides a field and returns the row stamps it with the current time.
\* (A step that sets result to an updateObservation outcome is that call; the
\* other steps leave result alone or record their own operation.)
C6_UpdatedAtMonotone ==
    [][/\ \A r \in observations : \A q \in observations' :
             q.id = r.id => q.updated_at >= r.updated_at
       /\ (/\ result' # result
           /\ result'.op = "updateObservation"
           /\ result'.nsets > 0
           /\ result'.existed
           /\ result'.ret # "throw") =>
               /\ result'.ret = "row"
               /\ result'.row.updated_at = now
               /\ result'.row \in observations'
               /\ \A q \in observations' : q.id = result'.id => q.updated_at = now]_vars

\* an update re-stamped a row after the clock had advanced
C6_Witness ==
    /\ result.op = "updateObservation"
    /\ result.ret = "row"
    /\ result.row.updated_at > result.row.created_at

----------------------------------------------------------------------------
(* Claims C7, C8: the HTTP routes (SpecHttp) *)

\* C7: every stored observation's disposition is one of open, addressed,
\* wont_fix, deferred.
C7_DispositionValid ==
    \A r \in observations : r.disposition \in VALID_DISPOSITIONS

\* C8: every stored observation's text is non-empty.
C8_TextNonEmpty ==
    \A r \in observations : r.text # <<>>

----------------------------------------------------------------------------
(* Claims C9, C10: the migration (SpecMigrate) *)

\* C9: a run of initDatabase over a store a successful run has left (every table
\* present, no status column) changes nothing in the store and does not raise.
C9_MigrationIdempotent ==
    [][((\E fail \in Failures : InitDatabase(fail))
          /\ tables = ALL_TABLES /\ ~("status" \in obs_columns)) =>
              /\ store' = store
              /\ result'.ret = "db"
              /\ pc' = "serving"]_vars

\* initDatabase ran again over a table that an earlier run had migrated
C9_Witness ==
    /\ result.op = "initDatabase"
    /\ result.ret = "db"
    /\ ~result.existed
    /\ disp_default = S("observed")
    /\ \E r \in observations : r.disposition \in {S("open"), S("addressed")}

\* C10: when a statement of the migration fails, the columns and the rows are as
\* before the migration began, the error reaches the caller of initDatabase, and
\* no renamed column with a legacy status value left in it is ever committed.
C10_MigrationAtomic ==
    [][/\ \A fail \in MigrationStatements :
             (InitDatabase(fail) /\ "status" \in CreateTablesColumns) =>
                 /\ obs_columns' = CreateTablesColumns
                 /\ "status" \in obs_columns'
                 /\ observations' = observations
                 /\ result'.ret = "throw"
                 /\ pc' = "crashed"
       /\ ("disposition" \in obs_columns') =>
             \A r \in observations' : r.disposition \notin VALID_STATUSES]_vars

\* a migration over legacy rows failed
C10_Witness ==
    /\ result.op = "initDatabase"
    /\ result.ret = "throw"
    /\ pc = "crashed"
    /\ \E r \in observations : r.disposition \in VALID_STATUSES

----------------------------------------------------------------------------
(* Claim C11: the value remap of the migration (SpecMigrate) *)

\* C11: a migration that succeeds turns the statuses observed, pattern_confirmed and
\* solution_designed into 'open' and automated into 'addressed', carries every other
\* value over, changes no other column of any row, and adds or removes no row.
C11_MigrationRemaps ==
    [][(InitDatabase("none") /\ "status" \in CreateTablesColumns) =>
          /\ result'.ret = "db"
          /\ "disposition" \in obs_columns' /\ "status" \notin obs_columns'
          /\ Cardinality(observations') = Cardinality(observations)
          /\ \A r \in observations :
                LET q == CHOOSE x \in observations' : x.id = r.id
                IN  /\ \E x \in observations' : x.id = r.id
                    /\ q.disposition =
                          (CASE r.disposition \in {S("observed"), S("pattern_confirmed"),
                                                   S("solution_designed")} -> S("open")
                             [] r.disposition = S("automated") -> S("addressed")
                             [] OTHER -> r.disposition)
                    /\ q.text = r.text /\ q.tags = r.tags /\ q.source = r.source
                    /\ q.project = r.project
                    /\ q.created_at = r.created_at /\ q.updated_at = r.updated_at]_vars

\* a migration succeeded over a row whose status was automated
C11_Witness ==
    /\ result.op = "initDatabase"
    /\ result.ret = "db"
    /\ result.existed
    /\ \E r \in observations : r.disposition = S("addressed")

----------------------------------------------------------------------------
(* Claims C12, C13: the project registry (SpecProj) *)

\* C12: createProjectsBulk(names) leaves every name of the list registered exactly
\* once, removes nothing, and returns exactly the rows this call inserted: one per
\* distinct name that was not registered before, in first-occurrence order.
C12_BulkReturnsNewRows ==
    [][\A names \in NameLists : CreateProjectsBulk(names) =>
          LET R == result'.rows
              first(n) == CHOOSE k \in 1..Len(names) :
                              names[k] = n /\ \A m \in 1..(k - 1) : names[m] # n
              unregistered == {names[k] : k \in 1..Len(names)} \
                              {p.name : p \in projects}
          IN  /\ \A k \in 1..Len(names) :
                    Cardinality({p \in projects' : p.name = names[k]}) = 1
              /\ projects \subseteq projects'
              /\ {R[i] : i \in 1..Len(R)} = projects' \ projects
              /\ {R[i].name : i \in 1..Len(R)} = unregistered
              /\ Len(R) = Cardinality(unregistered)
              /\ \A i \in 1..Len(R) : \A j \in (i + 1)..Len(R) :
                    first(R[i].name) < first(R[j].name)]_vars

\* createProjectsBulk(['a','a','b']) on a registry without a and b returned 2 rows
C12_Witness ==
    /\ result.op = "createProjectsBulk"
    /\ result.ids = <<S("a"), S("a"), S("b")>>
    /\ Len(result.rows) = 2
    /\ result.rows[1].name = S("a") /\ result.rows[2].name = S("b")

\* C13: createProject never raises; for a name already registered it returns the
\* pre-existing row and leaves the registry unchanged; no two project rows ever
\* have the same name.
C13_CreateProjectIdempotent ==
    [][/\ \A name \in RegistryNames : CreateProject(name) =>
             /\ result'.ret = "row"
             /\ result'.row \in projects'
             /\ result'.row.name = name
             /\ \A p \in projects : p.name = name =>
                   /\ result'.row = p
                   /\ projects' = projects
                   /\ proj_seq' = proj_seq
       /\ \A p \in projects' : \A q \in projects' : p.name = q.name => p = q]_vars

\* createProject returned a row registered at an earlier time
C13_Witness ==
    /\ result.op = "createProject"
    /\ result.existed
    /\ result.row.created_at < now
    /\ result.row \in projects

----------------------------------------------------------------------------
(* Claims C14, C16, C17: projects named by observations and actions (SpecRefs) *)

\* C14: when createObservation is called with a non-null project, a project row of
\* that name exists afterwards; when project is null no project row is added.
C14_CreateObservationRegisters ==
    [][\A project \in ObsProjects : CreateObservation(S("a"), NULL, project) =>
          IF project # NULL
          THEN \E p \in projects' : p.name = project
          ELSE projects' = projects]_vars

\* C16: when createAction is called with a project, a project row of that name
\* exists when the call returns.
C16_CreateActionRegisters ==
    (result.op = "createAction" /\ result.ret = "row" /\ result.row.project # NULL) =>
        \E p \in projects : p.name = result.row.project

\* C17: deleteProject changes the projects table only: the observations, the
\* actions and the links are the same before and after, whatever project they name.
C17_DeleteProjectFrame ==
    [][\A id \in ProjIds : DeleteProject(id) =>
          /\ observations' = observations
          /\ actions' = actions
          /\ action_observations' = action_observations
          /\ obs_seq' = obs_seq /\ act_seq' = act_seq
          /\ projects' = {p \in projects : p.id # id}]_vars

\* a project was deleted that an observation and a linked action still name
C17_Witness ==
    /\ result.op = "deleteProject"
    /\ result.ret = "true"
    /\ \A p \in projects : p.name # S("a")
    /\ \E r \in observations : r.project = S("a")
    /\ \E a \in actions : a.project = S("a") /\
          \E l \in action_observations : l.action_id = a.id

----------------------------------------------------------------------------
(* Claim C15: observation.project and the registry (SpecObs: no project is deleted) *)

\* C15: every observation's project is null or the name of a registered project.
C15_ProjectRegistered ==
    \A r \in observations :
        r.project = NULL \/ \E p \in projects : p.name = r.project

----------------------------------------------------------------------------
(* Claim C18: listObservations (SpecList) *)

\* C18: listObservations(filters) returns exactly the observations that equal every
\* non-null filter in the filtered column (all of them when every filter is null),
\* each once, ordered by created_at descending.
C18_ListMatchesFilters ==
    [][\A filters \in Filters : ListObservations(filters) =>
          LET R == result'.rows
              matching == {r \in observations :
                              \A f \in {"disposition", "source", "project"} :
                                 filters[f] # NULL => r[f] = filters[f]}
          IN  /\ {R[i] : i \in 1..Len(R)} = matching
              /\ Len(R) = Cardinality(matching)
              /\ \A i \in 1..Len(R) : \A j \in (i + 1)..Len(R) :
                    R[i].created_at >= R[j].created_at]_vars

----------------------------------------------------------------------------
(* Claim C19: the frame of updateObservation (SpecUpd) *)

\* C19: on a table that has the columns the record names, updateObservation with at
\* least one non-null field on an existing id overwrites exactly the non-null
\* fields, keeps the null fields, id, tags and created_at of that row, keeps every
\* other row, and returns the row as stored; on a missing id it returns null and
\* changes nothing.
C19_UpdateOverwritesProvided ==
    [][result'.op = "updateObservation" =>
          \A u \in Updates :
             (/\ Cardinality(Sets(u)) = result'.nsets
              /\ Sets(u) # {} /\ Sets(u) \subseteq obs_columns
              /\ UpdateObservation(result'.id, u)) =>
                 IF Exists(result'.id)
                 THEN LET r == Row(result'.id)
                          q == result'.row
                      IN  /\ result'.ret = "row"
                          /\ q \in observations'
                          /\ \A f \in UpdateFields : q[f] = IF u[f] # NULL THEN u[f] ELSE r[f]
                          /\ q.id = r.id /\ q.tags = r.tags /\ q.created_at = r.created_at
                          /\ observations' \ {q} = observations \ {r}
                 ELSE /\ result'.ret = "null"
                      /\ store' = store]_vars

\* one field of one row was overwritten while another row was in the table
C19_Witness ==
    /\ result.op = "updateObservation"
    /\ result.ret = "row"
    /\ result.nsets = 1
    /\ result.row.text = S("b")
    /\ result.row.project = NULL
    /\ \E o \in observations : o.id # result.id

----------------------------------------------------------------------------
(* Claim C20: repeated ids in observation_ids (Spec) *)

\* C20: createAction with an id twice in observation_ids raises; a call that
\* returns has stored one link row per element of the list, so a repeat is never
\* collapsed into a single link; a pair (action_id, observation_id) is stored once.
C20_RepeatedIdRaises ==
    result.op = "createAction" =>
        LET ids == result.ids
            mine == {l \in action_observations : l.action_id = result.id}
        IN  /\ (\E i \in 1..Len(ids) : \E j \in (i + 1)..Len(ids) : ids[i] = ids[j]) =>
                   result.ret = "throw"
            /\ result.ret = "row" =>
                   /\ Cardinality(mine) = Len(ids)
                   /\ {l.observation_id : l \in mine} = {ids[k] : k \in 1..Len(ids)}
            /\ \A l \in mine : \A m \in mine :
                   l.observation_id = m.observation_id => l = m

\* createAction raised on the second of two equal ids of an existing observation
C20_Witness ==
    /\ result.op = "createAction"
    /\ result.ret = "throw"
    /\ Len(result.ids) = 2
    /\ result.ids[1] = result.ids[2]
    /\ result.nsets = 2
    /\ Exists(result.ids[1])

----------------------------------------------------------------------------
(* SpecWalk: findGitRoots alone, every turn of its loop taken in the end   *)
(* (readdir settles: its promise resolves or rejects).                     *)

NextWalk ==
    \/ \E rootPath \in RootPaths : scan_pc = "idle" /\ ScanForGitRepos(rootPath)
    \/ FindGitRoots
    \/ FindGitRootsReturns

SpecWalk == InitScan /\ [][NextWalk]_vars /\ WF_vars(NextWalk)

----------------------------------------------------------------------------
(* Claims C21..C26: the repository scanner (SpecScan, SpecScanLive) *)

\* C21: no directory that lies strictly inside a recorded repository root is ever
\* enqueued, listed or recorded; on the tree repoA/.git, repoA/nested/.git,
\* node_modules/.git under the scan root the walk records exactly repoA.
C21_NoWalkInsideRoot ==
    /\ \A i \in 1..Len(roots) :
          \A d \in listed \cup {queue[k] : k \in 1..Len(queue)} \cup {roots[k] : k \in 1..Len(roots)} :
             ~(Len(d) > Len(roots[i]) /\ SubSeq(d, 1, Len(roots[i])) = roots[i])
    /\ (/\ scan_pc \in {"lookup", "waiting", "done"}
        /\ Expand(scan_root) = HOME
        /\ fs_git = {HOME \o <<S("repoA")>>, HOME \o <<S("repoA"), S("nested")>>,
                     HOME \o <<NODE_MODULES>>}) =>
           roots = <<HOME \o <<S("repoA")>>>>

\* the walk of the tree repoA/.git, repoA/nested/.git, node_modules/.git ended
C21_Witness ==
    /\ scan_pc = "done"
    /\ Expand(scan_root) = HOME
    /\ fs_git = {HOME \o <<S("repoA")>>, HOME \o <<S("repoA"), S("nested")>>,
                 HOME \o <<NODE_MODULES>>}
    /\ roots = <<HOME \o <<S("repoA")>>>>
    /\ HOME \o <<S("work"), S("repoB")>> \in listed

\* C22: no directory below the scan root that is named node_modules or whose name
\* begins with '.', and no directory beneath one, is ever enqueued, listed or
\* recorded as a root.
C22_PrunedNeverVisited ==
    \A d \in listed \cup {queue[k] : k \in 1..Len(queue)} \cup {roots[k] : k \in 1..Len(roots)} :
        \A k \in (Len(Expand(scan_root)) + 1)..Len(d) :
            d[k] # NODE_MODULES /\ ~StartsWithDot(d[k])

\* a walk ended that passed node_modules and a hidden directory holding .git
\* entries, at the first and at the second level
C22_Witness ==
    /\ scan_pc = "done"
    /\ {HOME \o <<NODE_MODULES>>, HOME \o <<<<DOT, "cache">>>>,
        HOME \o <<S("work"), NODE_MODULES>>} \subseteq fs_git
    /\ {HOME, HOME \o <<S("work")>>} \subseteq listed
    /\ roots = <<>>

\* C23: when the root path does not resolve to a directory, scanForGitRepos
\* returns no result (it raises).
C23_MissingRootRaises ==
    (scan_pc # "idle" /\ Expand(scan_root) \notin DirectorySet) => scan_pc # "done"

\* C24: a root whose lookup fails or does not complete contributes no candidate,
\* and the scan still completes.
C24_LookupFailureNotFatal ==
    /\ [](Len(candidates) <= Cardinality({i \in 1..Len(urls) : urls[i] # NULL}))
    /\ (scan_pc = "lookup") ~> (scan_pc = "done")

\* C25: the result holds exactly the owner/repo strings parsed from the remotes of
\* the discovered roots, each once, in strictly ascending order.
C25_SortedDistinct ==
    scan_pc = "done" =>
        /\ Len(urls) = Len(roots)
        /\ {scan_ret[i] : i \in 1..Len(scan_ret)} =
              {parseGitHubRepo(urls[i]) : i \in {k \in 1..Len(urls) : urls[k] # NULL}} \ {NULL}
        /\ \A i \in 1..Len(scan_ret) : \A j \in (i + 1)..Len(scan_ret) :
              StringLess(scan_ret[i], scan_ret[j])

\* two roots were found whose repositories were pushed in descending order
C25_Witness ==
    /\ scan_pc = "done"
    /\ Len(candidates) = 2
    /\ StringLess(candidates[2], candidates[1])
    /\ scan_ret = <<candidates[2], candidates[1]>>

\* C26: for every remote URL looked up, parseGitHubRepo gives owner/repo when the
\* URL is git@github.com:<owner>/<repo> or http(s)://github.com/<owner>/<repo>,
\* optionally followed by .git, with owner and repo non-empty and without '/';
\* a trailing .git is not part of repo; every other URL gives no candidate.
C26_ParseShapes ==
    \A i \in 1..Len(urls) : urls[i] # NULL =>
        LET u == urls[i]
            shape(j, g) ==
                /\ u[1] \in {SSH_PREFIX, HTTPS_PREFIX, HTTP_PREFIX}
                /\ u[j] = SLASH
                /\ j > 2 /\ j < Len(u) - g
                /\ \A k \in 2..Len(u) : k # j => u[k] # SLASH
                /\ g = 1 => u[Len(u)] = GIT_SUFFIX
            text(j, g) == SubSeq(u, 2, j - 1) \o <<SLASH>> \o SubSeq(u, j + 1, Len(u) - g)
            J == 2..Len(u)
        IN  IF \E j \in J : shape(j, 1)
            THEN \E j \in J : shape(j, 1) /\ parseGitHubRepo(u) = text(j, 1)
            ELSE IF \E j \in J : shape(j, 0)
            THEN \E j \in J : shape(j, 0) /\ parseGitHubRepo(u) = text(j, 0)
            ELSE parseGitHubRepo(u) = NULL

\* the SSH URL with the .git suffix and a gitlab URL were looked up: one candidate
C26_Witness ==
    /\ urls = <<<<SSH_PREFIX, "acme", SLASH, "widgets", GIT_SUFFIX>>,
                <<GITLAB_PREFIX, "acme", SLASH, "widgets">>>>
    /\ candidates = <<<<"acme", SLASH, "widgets">>>>

----------------------------------------------------------------------------
(* Claims C27, C29, C30: the store's writes (SpecLog); C28: source (SpecList) *)

\* C27: an action row that is in the table stays in it, with every field as it
\* was, over every step of the store.
C27_ActionsAppendOnly ==
    [][/\ \A a \in actions : a \in actions'
       /\ \A a \in actions' : a \in actions \/ a.id = act_seq + 1
       /\ act_seq' >= act_seq]_vars

\* an observation was deleted while an action linked to it is in the log
C27_Witness ==
    /\ result.op = "deleteObservation"
    /\ result.ret = "true"
    /\ \E l \in action_observations :
          l.observation_id = result.id /\ \E a \in actions : a.id = l.action_id

\* C28: createObservation stores source 'human' when the caller's source is absent
\* or the empty string, and the caller's source otherwise.
C28_BlankSourceIsHuman ==
    [][\A source \in ListSources, project \in ProjectNames \cup {NULL} :
          (CreateObservation(S("a"), source, project) /\ result'.ret = "row") =>
              result'.row.source = IF source = NULL \/ source = <<>> THEN HUMAN ELSE source]_vars

\* C29: deleteObservation and deleteProject return true exactly when a row of that
\* id existed, and then that row and no other row of the table is gone; for an id
\* without a row they return false and leave the store unchanged.
C29_DeleteReportsRemoval ==
    [][/\ \A id \in RowIds : DeleteObservation(id) =>
             IF Exists(id)
             THEN /\ result'.ret = "true"
                  /\ observations' = observations \ {Row(id)}
             ELSE /\ result'.ret = "false"
                  /\ store' = store
       /\ \A id \in ProjIds : DeleteProject(id) =>
             IF \E p \in projects : p.id = id
             THEN /\ result'.ret = "true"
                  /\ projects' = {p \in projects : p.id # id}
                  /\ Cardinality(projects') = Cardinality(projects) - 1
             ELSE /\ result'.ret = "false"
                  /\ store' = store]_vars

\* a second deleteProject of an id returned false
C29_Witness ==
    /\ result.op = "deleteProject"
    /\ result.ret = "false"
    /\ result.id <= proj_seq
    /\ \A p \in projects : p.id # result.id

----------------------------------------------------------------------------
----------------------------------------------------------------------------
(* Claims C31..C40 *)

\* C32: when the k-th link insert of a createAction call fails the call raises, and
\* the store holds the action row together with exactly the links for the first k-1
\* ids of observation_ids, and no link for the k-th or any later id.
C32_PartialLinksOnFailure ==
    (result.op = "createAction" /\ result.nsets # 0) =>
        LET ids == result.ids
            k == result.nsets
            mine == {l \in action_observations : l.action_id = result.id}
        IN  /\ result.ret = "throw"
            /\ k \in 1..Len(ids)
            /\ result.row \in actions
            /\ mine = {[action_id |-> result.id, observation_id |-> ids[j]] : j \in 1..(k - 1)}
            /\ Cardinality(mine) = k - 1

\* the first insert of a two-element list failed on a missing observation although
\* the second id names an existing one: the action is stored without any link
C32_Witness ==
    /\ result.op = "createAction"
    /\ result.ret = "throw"
    /\ result.nsets = 1
    /\ Len(result.ids) = 2
    /\ result.ids[1] # result.ids[2]
    /\ Exists(result.ids[2])
    /\ result.row \in actions
    /\ ~\E l \in action_observations : l.action_id = result.id

\* C33: createAction returns its input list as observation_ids (result.ids of a
\* returning call), and in every later state listActions reports for each action
\* exactly the observation ids linked to it in action_observations at that moment,
\* so that the id of an observation that was deleted is reported for no action.
C33_ListReportsCurrentLinks ==
    LET all == listActions([project |-> NULL, observation_id |-> 0])
        reported(k) == {all[k].observation_ids[j] : j \in 1..Len(all[k].observation_ids)}
    IN  /\ Len(all) = Cardinality(actions)
        /\ \A k \in 1..Len(all) :
              /\ reported(k) = {l.observation_id :
                                   l \in {m \in action_observations : m.action_id = all[k].id}}
              /\ Len(all[k].observation_ids) = Cardinality(reported(k))
              /\ (result.op = "deleteObservation" /\ result.existed) =>
                     result.id \notin reported(k)

\* C39: for every positive observation id, listActions({observation_id: id}) with
\* the observation_ids field dropped is the same sequence of actions as
\* getActionsForObservation(id), and no action occurs twice in it; a listActions
\* call that was served with that filter alone returned that sequence.
C39_ListByObservationAgrees ==
    LET dropped(e) == [id |-> e.id, description |-> e.description, source |-> e.source,
                       reference |-> e.reference, project |-> e.project,
                       created_at |-> e.created_at]
        stripped(rows) == [k \in 1..Len(rows) |-> dropped(rows[k])]
    IN  /\ \A id \in RowIds :
              LET listed_ == stripped(listActions([project |-> NULL, observation_id |-> id]))
              IN  /\ listed_ = getActionsForObservation(id)
                  /\ \A i \in 1..Len(listed_) : \A j \in 1..Len(listed_) :
                         listed_[i].id = listed_[j].id => i = j
        /\ (result.op = "listActions" /\ result.id > 0 /\ result.nsets = 1) =>
              stripped(result.rows) = getActionsForObservation(result.id)

\* listActions was served for an observation that two actions created at different
\* times are linked to, the later action first
C39_Witness ==
    /\ result.op = "listActions"
    /\ result.id > 0 /\ result.nsets = 1
    /\ Len(result.rows) = 2
    /\ result.rows[1].created_at > result.rows[2].created_at
    /\ result.rows[1].id > result.rows[2].id

\* C34: a directory whose listing fails during a scan contributes no repository
\* root and no subdirectory (nothing beneath it is enqueued, listed or recorded), it
\* is never on the frontier again, and the turn of the loop that met the failure
\* drops it and goes on with the rest of the frontier, the scan still walking.
C34_UnreadableSkipped ==
    /\ [](\A i \in 1..Len(popped) :
            LET d == popped[i]
                seen == listed \cup {queue[k] : k \in 1..Len(queue)}
                               \cup {roots[k] : k \in 1..Len(roots)}
                               \cup {popped[k] : k \in 1..Len(popped)}
            IN  (d \in fs_unreadable \/ d \notin DirectorySet) =>
                   /\ d \notin listed
                   /\ \A k \in 1..Len(roots) : roots[k] # d
                   /\ \A k \in 1..Len(queue) : queue[k] # d
                   /\ \A e \in seen : ~(Len(e) > Len(d) /\ SubSeq(e, 1, Len(d)) = d))
    /\ [][(/\ scan_pc = "walking" /\ queue # <<>>
           /\ Head(queue) \in fs_unreadable
           /\ popped' # popped)
             => /\ queue' = Tail(queue)
                /\ roots' = roots
                /\ listed' = listed
                /\ scan_pc' = "walking"]_vars

\* the scan of the home directory returned a repository although listing the
\* directory work, which holds a repository, failed on the way
C34_Witness ==
    /\ scan_pc = "done"
    /\ Expand(scan_root) = HOME
    /\ HOME \o <<S("work")>> \in fs_unreadable
    /\ HOME \o <<S("work"), S("repoB")>> \in fs_git
    /\ \E i \in 1..Len(popped) : popped[i] = HOME \o <<S("work")>>
    /\ roots = <<HOME \o <<S("repoA")>>>>
    /\ scan_ret # <<>>

\* C35: findGitRoots terminates with an empty frontier (a scan that is walking
\* comes to the return of findGitRoots with the queue empty), and each directory is
\* popped at most once and listed only when it was popped.
C35_WalkTerminates ==
    /\ [](\A i \in 1..Len(popped) : \A j \in 1..Len(popped) : popped[i] = popped[j] => i = j)
    /\ [](listed \subseteq {popped[k] : k \in 1..Len(popped)})
    /\ [](scan_pc \in {"lookup", "waiting", "done"} => queue = <<>>)
    /\ ((scan_pc = "walking") ~> (scan_pc = "lookup" /\ queue = <<>>))

\* the walk over the whole tree has returned: five directories were popped, the
\* unreadable one among them, and the frontier is empty
C35_Witness ==
    /\ scan_pc = "lookup"
    /\ queue = <<>>
    /\ Expand(scan_root) = HOME
    /\ fs_git = {}
    /\ Len(popped) >= 4

\* C38: the repository roots recorded by one scan are pairwise non-nested and
\* distinct: no recorded root is a proper prefix of another, none is recorded twice.
C38_RootsNonNested ==
    \A i \in 1..Len(roots) : \A j \in 1..Len(roots) :
        /\ roots[i] = roots[j] => i = j
        /\ ~(Len(roots[j]) > Len(roots[i]) /\ SubSeq(roots[j], 1, Len(roots[i])) = roots[i])

\* two roots were recorded while a directory inside the first one holds a .git too
C38_Witness ==
    /\ Len(roots) = 2
    /\ roots[1] = HOME \o <<S("repoA")>>
    /\ HOME \o <<S("repoA"), S("nested")>> \in fs_git
    /\ roots[2] = HOME \o <<S("work"), S("repoB")>>

\* C36: getObservationsByIds(ids) returns exactly the existing observations whose
\* id occurs in ids, each once even when ids repeats an id, ordered by created_at
\* descending; for an empty list it returns the empty sequence and runs no statement.
C36_ByIdsExactOnceOrdered ==
    result.op = "getObservationsByIds" =>
        LET ids == result.ids
            rows == result.rows
            wanted == {r \in observations : \E k \in 1..Len(ids) : ids[k] = r.id}
        IN  /\ {rows[i] : i \in 1..Len(rows)} = wanted
            /\ Len(rows) = Cardinality(wanted)
            /\ \A i \in 1..Len(rows) : \A j \in 1..Len(rows) :
                   i < j => rows[i].created_at >= rows[j].created_at
            /\ ids = <<>> => (rows = <<>> /\ result.nsets = 0)

\* the call named the later observation twice: it came back once
C36_Witness ==
    /\ result.op = "getObservationsByIds"
    /\ result.ids = <<2, 2>>
    /\ Len(result.rows) = 1
    /\ result.rows[1].id = 2
    /\ Exists(1)

\* C37: observation ids are never reused: every createObservation that returns a
\* row returns an id greater than every id returned before (obs_seq holds the
\* largest one, and never goes down) and greater than the id of every row of the
\* table; no row ever has an id above obs_seq.
C37_IdsNeverReused ==
    [][ /\ obs_seq' >= obs_seq
        /\ \A r \in observations' : r.id <= obs_seq'
        /\ (result'.op = "createObservation" /\ result'.ret = "row" /\ observations' # observations)
              => /\ result'.id > obs_seq
                 /\ \A r \in observations : result'.id > r.id
                 /\ obs_seq' = result'.id
                 /\ result'.row.id = result'.id ]_vars

\* observation 1 was deleted, its link row is still there, and the observation
\* created afterwards got id 2
C37_Witness ==
    /\ result.op = "createObservation"
    /\ result.id = 2
    /\ ~Exists(1)
    /\ Exists(2)
    /\ \E l \in action_observations : l.observation_id = 1

\* C40: after initDatabase returned on a file of any earlier schema version, the
\* observations table has every column the store operations write, and a
\* createObservation call returns a row with disposition 'open'.
C40_LegacyStoreWritable ==
    /\ pc = "serving" => {"text", "source", "project", "disposition"} \subseteq obs_columns
    /\ result.op = "createObservation" =>
          (result.ret = "row" /\ result.row.disposition = OPEN)

====
